---- MODULE Spec2Model ----
(***************************************************************************)
(* A model of app.py: the users table, the per-browser Flask sessions,     *)
(* the before_request auth gate, the authentication endpoints and the     *)
(* rule-based /chat endpoint with its process-wide error counter.          *)
(* Requests are handled one at a time: every action is one whole request, *)
(* gate included.                                                          *)
(***************************************************************************)
EXTENDS Integers, Sequences, FiniteSets, TLC

VARIABLES
    users,               \* rows of the users table, in insertion order
    sessions,            \* browser -> Flask session (a dict: a function on its keys)
    consecutive_errors,  \* the module-level counter of app.py
    request,             \* the request handled last
    response,            \* the response to it
    run,                 \* history: unmatched chat calls since the last matched or empty one
    errors_before,       \* history: the counter as the last request found it
    logged_in_as,        \* history: browser -> id of the row its latest successful login
                         \* matched, 0 when there was none or a logout came after it
    regs,                \* concurrent POST /register_user requests, each at its step
    chats,               \* concurrent POST /chat requests, each at its step
    race                 \* history of the concurrent chat requests

vars ==
    <<users, sessions, consecutive_errors, request, response, run, errors_before,
      logged_in_as, regs, chats, race>>

\* the state of the requests that run concurrently
conc == <<regs, chats, race>>

-----------------------------------------------------------------------------
(* Bounds of the model.                                                    *)

\* longest run of consecutive unmatched chat calls that is explored
MaxRun == 4

\* largest value of the counter that the concurrent chat requests store
MaxErrors == 3

Browsers == {"b1", "b2"}

-----------------------------------------------------------------------------
(* Python strings: str.lower, str.strip, the `in` substring test.          *)

UpperCase == "ABCDEFGHIJKLMNOPQRSTUVWXYZ"
LowerCase == "abcdefghijklmnopqrstuvwxyz"
Whitespace == {" ", "\t", "\n"}

CharAt(s, i) == SubSeq(s, i, i)

LowerChar(c) ==
    IF \E i \in 1..Len(UpperCase) : CharAt(UpperCase, i) = c
    THEN CharAt(LowerCase, CHOOSE i \in 1..Len(UpperCase) : CharAt(UpperCase, i) = c)
    ELSE c

RECURSIVE lower(_)
lower(s) ==
    IF Len(s) = 0 THEN ""
    ELSE LowerChar(CharAt(s, 1)) \o lower(SubSeq(s, 2, Len(s)))

RECURSIVE lstrip(_)
lstrip(s) ==
    IF Len(s) > 0 /\ CharAt(s, 1) \in Whitespace
    THEN lstrip(SubSeq(s, 2, Len(s)))
    ELSE s

RECURSIVE rstrip(_)
rstrip(s) ==
    IF Len(s) > 0 /\ CharAt(s, Len(s)) \in Whitespace
    THEN rstrip(SubSeq(s, 1, Len(s) - 1))
    ELSE s

strip(s) == rstrip(lstrip(s))

\* Python's `k in s` for two strings
In(k, s) ==
    \E i \in 1..(Len(s) - Len(k) + 1) : SubSeq(s, i, i + Len(k) - 1) = k

\* any(k in s for k in ks), ks a tuple of keywords
AnyIn(ks, s) == \E j \in 1..Len(ks) : In(ks[j], s)

\* s in [..]: membership of a list of strings
IsOneOf(s, ks) == \E j \in 1..Len(ks) : ks[j] = s

-----------------------------------------------------------------------------
(* JSON values of a request body's fields.                                 *)

Absent == [t |-> "absent", v |-> ""]
JNull == [t |-> "null", v |-> ""]
JNum(n) == [t |-> "num", v |-> n]
JStr(s) == [t |-> "str", v |-> s]

\* dict.get(key, default): the default stands in for an absent key only
Get(field, default) == IF field.t = "absent" THEN default ELSE field

\* a test for None alone: `x is None`
Falsy_none(x) == x.t = "null"

\* Python's `not x` for None, a string, a number (given as its digits)
Falsy(x) ==
    \/ x.t = "null"
    \/ x.t = "str" /\ Len(x.v) = 0
    \/ x.t = "num" /\ x.v = "0"

-----------------------------------------------------------------------------
(* The chat replies, each named by the sentence it opens with.             *)

ClarifyReply == "Please tell me your career ambition or what you'd like to know!"
GreetingReply == "Hello there! I'm a student guidance chatbot."
AffirmReply == "Great! To help you better, what specific tech job or area are you interested in?"
NegateReply == "Okay, no problem! Is there anything else I can assist you with today"
GratitudeReply == "You're welcome! Is there anything else I can help you with"
BcaReply == "After BCA, you have diverse job opportunities in IT!"
WebReply == "A **Web Developer** builds and maintains websites."
DataReply == "A **Data Analyst/Scientist** extracts insights from data"
CyberReply == "A **Cybersecurity Analyst** protects systems and networks"
CloudReply == "A **Cloud Engineer / DevOps Engineer** focuses on building"
SoftwareReply == "A **Software Developer/Engineer** designs, codes, tests"
PythonReply == "A **Python Developer** specializes in building various applications"
LanguageReply == "To provide a more tailored roadmap, **which specific programming language"
TesterReply == "A **Software Tester / QA Engineer** ensures the quality of software"
MlReply == "A **Machine Learning Engineer** designs, builds, and deploys AI/ML models"
DbmsReply == "A **DBMS Engineer / Database Administrator (DBA) / Database Architect**"
IotReply == "An **IoT Developer** specializes in building and deploying solutions"
AndroidReply == "An **Android Developer** builds applications for the Android operating system."
IosReply == "An **iOS Developer** builds applications for Apple's iOS ecosystem"
FlutterReply == "A **Flutter Developer** builds natively compiled applications"
BlockchainReply == "A **Blockchain Developer** designs and implements decentralized applications"
EducatorReply == "An **Educator / Teacher** in the computer science or IT field"
CapabilityReply == "I'm sorry, I can only provide guidance for specific tech career paths like"
GenericReply == "Sorry, I couldn't understand your request. Can you please ask again"

\* the reply of no branch: the cascade fell through to the counter
NoReply == ""

-----------------------------------------------------------------------------
(* chat(): the if/elif cascade over the normalized message.                *)

GreetingWords ==
    <<"hello", "hi", "hey", "good morning", "good afternoon", "good evening",
      "good night", "how are you", "what's up", "greetings">>
AffirmWords == <<"yes", "yeah", "yep", "yup", "sure", "definitely">>
NegateWords == <<"no", "nope", "not really", "nah">>

\* user_message = request.json.get("message", "").lower().strip(), of a string
Normalize(raw) == strip(lower(raw))

\* the branches between the empty test and the counter: the reply of the first
\* branch whose condition holds, NoReply when none does
MatchedReply(m) ==
    IF AnyIn(GreetingWords, m) THEN GreetingReply
    ELSE IF IsOneOf(m, AffirmWords) THEN AffirmReply
    ELSE IF IsOneOf(m, NegateWords) THEN NegateReply
    ELSE IF In("thanks", m) \/ In("thank you", m) \/ In("ty", m) THEN GratitudeReply
    ELSE IF In("job opportunities after bca", m) \/ In("jobs after bca", m)
            \/ In("career after bca", m) THEN BcaReply
    ELSE IF In("web developer", m) \/ In("web dev", m) \/ In("frontend", m)
            \/ In("backend", m) THEN WebReply
    ELSE IF In("data scientist", m) \/ In("data analyst", m)
            \/ In("data science", m) THEN DataReply
    ELSE IF In("cybersecurity", m) \/ In("cyber security", m)
            \/ In("security analyst", m) THEN CyberReply
    ELSE IF In("cloud engineer", m) \/ In("devops", m) \/ In("devops engineer", m)
            \/ In("cloud computing", m) THEN CloudReply
    ELSE IF In("software developer", m) \/ In("software engineer", m)
            \/ In("programmer", m) THEN SoftwareReply
    ELSE IF In("python developer", m) \/ In("python programming", m) THEN PythonReply
    ELSE IF In("java developer", m) \/ In("java programming", m)
            \/ In("c++ developer", m) \/ In("c++ programming", m)
            \/ In("javascript developer", m) \/ In("javascript programming", m)
            \/ In("language based developer", m) THEN LanguageReply
    ELSE IF In("software tester", m) \/ In("qa engineer", m)
            \/ In("quality assurance", m) \/ In("software testing", m) THEN TesterReply
    ELSE IF In("machine learning engineer", m) \/ In("ml engineer", m)
            \/ In("ai engineer", m)
            \/ In("artificial intelligence engineer", m) THEN MlReply
    ELSE IF In("dbms", m) \/ In("database architect", m)
            \/ In("database engineer", m)
            \/ In("database administrator", m) THEN DbmsReply
    ELSE IF In("iot developer", m)
            \/ In("internet of things developer", m) THEN IotReply
    ELSE IF In("android developer", m) \/ In("android app", m)
            \/ In("mobile developer android", m) THEN AndroidReply
    ELSE IF In("ios developer", m) \/ In("ios app", m)
            \/ In("mobile developer ios", m) THEN IosReply
    ELSE IF In("flutter developer", m) \/ In("flutter programming", m)
            \/ In("flutter app", m)
            \/ In("cross-platform mobile developer", m) THEN FlutterReply
    ELSE IF In("blockchain developer", m) \/ In("blockchain programming", m)
            \/ In("crypto developer", m) THEN BlockchainReply
    ELSE IF In("educator", m) \/ In("teacher", m) \/ In("professor", m)
            \/ In("lecturer", m) \/ In("computer instructor", m) THEN EducatorReply
    ELSE NoReply

\* the clarification without the reset
EmptyBranch_keeps(errors) == [reply |-> ClarifyReply, errors |-> errors]

\* `if not user_message`: the counter is zeroed, the clarification returned
EmptyBranch(errors) == [reply |-> ClarifyReply, errors |-> 0]

\* a matched branch that forgets the reset
MatchedBranch_keeps(reply, errors) == [reply |-> reply, errors |-> errors]

\* a matched branch: `consecutive_errors = 0`, then its reply
MatchedBranch(reply, errors) == [reply |-> reply, errors |-> 0]

\* the tail of chat() escalating without the reset
UnmatchedBranch_sticky(errors) ==
    LET n == errors + 1 IN
    IF n >= 2 THEN [reply |-> CapabilityReply, errors |-> n]
    ELSE [reply |-> GenericReply, errors |-> n]

\* the tail of chat(): increment, test against 2, reset on escalation
UnmatchedBranch(errors) ==
    LET n == errors + 1 IN
    IF n >= 2 THEN [reply |-> CapabilityReply, errors |-> 0]
    ELSE [reply |-> GenericReply, errors |-> n]

\* a cascade that tries the web developer keyword "backend" before all else
Cascade_webfirst(raw) ==
    [user_message |-> Normalize(raw),
     reply |-> IF In("backend", Normalize(raw)) THEN WebReply
               ELSE MatchedReply(Normalize(raw))]

\* the part of chat() that reads only the message: the normalized message and
\* the reply of the first branch it satisfies
Cascade(raw) ==
    [user_message |-> Normalize(raw), reply |-> MatchedReply(Normalize(raw))]

\* the rest of chat(): which branch is taken, its reply, the counter after it
chat(c, errors) ==
    IF Len(c.user_message) = 0
    THEN [branch |-> "empty"] @@ EmptyBranch(errors)
    ELSE IF c.reply # NoReply
    THEN [branch |-> "matched"] @@ MatchedBranch(c.reply, errors)
    ELSE [branch |-> "unmatched"] @@ UnmatchedBranch(errors)

-----------------------------------------------------------------------------
(* Flask sessions: a dict per browser.                                     *)

EmptySession == [k \in {} |-> ""]

\* session[k] = v
SessionSet(s, k, v) == [x \in DOMAIN s \cup {k} |-> IF x = k THEN v ELSE s[x]]

\* session.pop(k, None)
SessionPop(s, k) == [x \in DOMAIN s \ {k} |-> s[x]]

-----------------------------------------------------------------------------
(* Responses.                                                              *)

NoProfile == << >>

\* jsonify({"message": text}), status
JsonMessage(status, text, handler) ==
    [status |-> status, type |-> "message", text |-> text, handler |-> handler,
     profile |-> NoProfile]

\* jsonify({"reply": text}), 200 by default
JsonReply(text, handler) ==
    [status |-> 200, type |-> "reply", text |-> text, handler |-> handler,
     profile |-> NoProfile]

\* redirect(url_for(endpoint)): 302 with the endpoint's path as Location
Redirect(location, handler) ==
    [status |-> 302, type |-> "redirect", text |-> location, handler |-> handler,
     profile |-> NoProfile]

\* render_template(name)
Page(name, handler) ==
    [status |-> 200, type |-> "page", text |-> name, handler |-> handler,
     profile |-> NoProfile]

\* an exception no handler catches: Flask answers 500
ServerError(exception, handler) ==
    [status |-> 500, type |-> "error", text |-> exception, handler |-> handler,
     profile |-> NoProfile]

-----------------------------------------------------------------------------
(* check_auth: the before_request gate.                                    *)

PublicPaths ==
    {"/login", "/register", "/login_user", "/register_user",
     "/static/style.css", "/static/script.js"}

\* the view function Flask routes a path to ("none": no route, a 404)
Endpoint(path) ==
    CASE path = "/" -> "home"
      [] path = "/login" -> "login_page"
      [] path = "/register" -> "register_page"
      [] path = "/profile" -> "profile_page"
      [] path = "/chat_app" -> "chat_app_page"
      [] path = "/register_user" -> "register_user"
      [] path = "/login_user" -> "login_user"
      [] path = "/logout_user" -> "logout_user"
      [] path = "/get_user_profile" -> "get_user_profile"
      [] path = "/chat" -> "chat"
      [] Len(path) > 8 /\ SubSeq(path, 1, 8) = "/static/" -> "static"
      [] OTHER -> "none"

\* a gate whose list of open paths lacks the registration endpoint
check_auth_closed(path, session) ==
    IF path \in PublicPaths \ {"/register_user"} THEN "pass"
    ELSE IF "user_id" \notin DOMAIN session
    THEN IF Endpoint(path) # "login_page" THEN "redirect" ELSE "pass"
    ELSE "pass"

\* "pass": the gate returns None and the request goes on to its view function;
\* "redirect": the gate answers with redirect(url_for('login_page'))
check_auth(path, session) ==
    IF path \in PublicPaths THEN "pass"
    ELSE IF "user_id" \notin DOMAIN session
    THEN IF Endpoint(path) # "login_page" THEN "redirect" ELSE "pass"
    ELSE "pass"

-----------------------------------------------------------------------------
(* The users table.                                                        *)

MinPasswordLen == 6

\* the existence check on the email alone
ExistsEmailOrUsername_email(tbl, email, username) ==
    \E i \in 1..Len(tbl) : tbl[i].email = email

\* SELECT id FROM users WHERE email = ? OR username = ?; fetchone() is not None
ExistsEmailOrUsername(tbl, email, username) ==
    \E i \in 1..Len(tbl) : tbl[i].email = email \/ tbl[i].username = username

\* a table created without the UNIQUE constraints
UniqueOk_none(tbl, email, username) == TRUE

\* the UNIQUE constraints on username and on email
UniqueOk(tbl, email, username) ==
    \A i \in 1..Len(tbl) : tbl[i].email # email /\ tbl[i].username # username

\* INSERT INTO users ...; id INTEGER PRIMARY KEY AUTOINCREMENT, no row is deleted
InsertUser(tbl, username, email, password, member_since) ==
    Append(tbl, [id |-> Len(tbl) + 1, username |-> username, email |-> email,
                 password |-> password, member_since |-> member_since])

\* SELECT ... WHERE email = ?; fetchone(): the rows matching, first taken
RowsByEmail(tbl, email) == SelectSeq(tbl, LAMBDA r : r.email = email)

\* SELECT ... WHERE id = ?
RowsById(tbl, id) == SelectSeq(tbl, LAMBDA r : r.id = id)

-----------------------------------------------------------------------------
(* The view functions, as functions of the request and the state.          *)

\* register_user(): the response and the table after it
register_user(data, tbl, now) ==
    LET email == Get(data.email, JNull)
        password == Get(data.password, JNull)
        username == Get(data.username, JNull)
    IN
    IF Falsy(email) \/ Falsy(password) \/ Falsy(username)
    THEN [resp |-> JsonMessage(400, "Email, password, and username are required.",
                               "register_user"),
          tbl |-> tbl]
    ELSE IF Len(password.v) < MinPasswordLen
    THEN [resp |-> JsonMessage(400, "Password must be at least 6 characters long.",
                               "register_user"),
          tbl |-> tbl]
    ELSE IF ExistsEmailOrUsername(tbl, email.v, username.v)
    THEN [resp |-> JsonMessage(409, "Email or username already registered.",
                               "register_user"),
          tbl |-> tbl]
    ELSE IF ~UniqueOk(tbl, email.v, username.v)
    THEN [resp |-> JsonMessage(500, "Registration failed: UNIQUE constraint failed",
                               "register_user"),
          tbl |-> tbl]
    ELSE [resp |-> JsonMessage(201, "Registration successful! Please log in.",
                               "register_user"),
          tbl |-> InsertUser(tbl, username.v, email.v, password.v, now)]

\* the 401 of a password that differs from the row's
WrongPassword == JsonMessage(401, "Invalid email or password.", "login_user")

\* an answer that tells an unknown email from a wrong password
UnknownEmail_leaks == JsonMessage(404, "No account with that email.", "login_user")

\* the 401 of an email no row has
UnknownEmail == JsonMessage(401, "Invalid email or password.", "login_user")

\* login_user(): the response and the session after it
login_user(data, tbl, session) ==
    LET email == Get(data.email, JNull)
        password == Get(data.password, JNull)
    IN
    IF Falsy(email) \/ Falsy(password)
    THEN [resp |-> JsonMessage(400, "Email and password are required.", "login_user"),
          session |-> session]
    ELSE IF Len(RowsByEmail(tbl, email.v)) > 0
    THEN LET user == RowsByEmail(tbl, email.v)[1] IN
         IF user.password = password.v
         THEN [resp |-> JsonMessage(200, "Login successful!", "login_user"),
               session |-> SessionSet(SessionSet(SessionSet(session,
                               "user_id", user.id),
                               "user_email", user.email),
                               "username", user.username)]
         ELSE [resp |-> WrongPassword, session |-> session]
    ELSE [resp |-> UnknownEmail, session |-> session]

\* a logout that leaves the username behind
logout_user_partial(session) ==
    SessionPop(SessionPop(session, "user_id"), "user_email")

\* logout_user(): the session after the three pops
logout_user(session) ==
    SessionPop(SessionPop(SessionPop(session, "user_id"), "user_email"), "username")

\* get_user_profile(): the response
get_user_profile(session, tbl) ==
    IF "user_id" \notin DOMAIN session
    THEN JsonMessage(401, "Not authenticated.", "get_user_profile")
    ELSE IF Len(RowsById(tbl, session["user_id"])) > 0
    THEN LET profile_data == RowsById(tbl, session["user_id"])[1] IN
         [status |-> 200, type |-> "profile", text |-> "Standard User",
          handler |-> "get_user_profile",
          profile |-> <<profile_data.username, profile_data.email,
                        profile_data.member_since>>]
    ELSE JsonMessage(404, "Profile data not found.", "get_user_profile")

\* home(), login_page(), register_page(): send a logged-in browser to the chat page
home(session) ==
    IF "user_id" \in DOMAIN session THEN Redirect("/chat_app", "home")
    ELSE Redirect("/login", "home")

login_page(session) ==
    IF "user_id" \in DOMAIN session THEN Redirect("/chat_app", "login_page")
    ELSE Page("login.html", "login_page")

register_page(session) ==
    IF "user_id" \in DOMAIN session THEN Redirect("/chat_app", "register_page")
    ELSE Page("register.html", "register_page")

-----------------------------------------------------------------------------
(* The requests explored.                                                  *)

ChatMessages ==
    {"", "   ", "Hello there", " HI ", "YES ", "yes please", "no", "thank you",
     "I'd like info on web developer roles", "backend",
     "hello web developer", "thanks for the backend",
     "data scientist or web developer", "data scientist", "software tester",
     "cybersecurity", "machine learning engineer", "asdf"}

\* Cascade over the messages explored, evaluated once
CascadeOf == [raw \in ChatMessages |-> Cascade(raw)]

ChatInputs == {JStr(m) : m \in ChatMessages} \cup {Absent, JNull, JNum("5")}

Usernames == {"alice", "bob"}
Emails == {"a@x.io", "b@x.io"}
Passwords == {"abc12", "secret"}
Months == {"November 2026"}

UsernameInputs == {JStr(u) : u \in Usernames} \cup {Absent}
EmailInputs == {JStr(e) : e \in Emails} \cup {JStr("")}
PasswordInputs == {JStr(p) : p \in Passwords} \cup {JNull}

StaticPaths == {"/static/style.css", "/static/script.js", "/static/logo.png"}
UnroutedPaths == {"/admin", "/login/"}

NoData == [message |-> Absent, email |-> Absent, password |-> Absent,
           username |-> Absent]

NoResponse ==
    [status |-> 0, type |-> "none", text |-> "", handler |-> "none",
     profile |-> NoProfile]

-----------------------------------------------------------------------------
(* Requests served concurrently: Flask's threaded server runs each request *)
(* in its own thread, so the steps of two handlers interleave.             *)

RegProcs == {"r1", "r2", "r3"}
ChatProcs == {"c1", "c2", "c3"}

\* no registration request in this thread
IdleReg == [pc |-> "idle", data |-> NoData, status |-> 0]

\* no chat request in this thread
IdleChat == [pc |-> "idle", kind |-> "none", read |-> 0, reply |-> NoReply]

\* no concurrent chat request was made yet
NoRace == [base |-> 0, launched |-> 0, seen |-> {}]

-----------------------------------------------------------------------------
(* The state machine: one action per route, the gate included.             *)

Init ==
    /\ users = << >>
    /\ sessions = [b \in Browsers |-> EmptySession]
    /\ consecutive_errors = 0
    /\ request = [browser |-> "b1", path |-> "", data |-> NoData]
    /\ response = NoResponse
    /\ run = 0
    /\ errors_before = 0
    /\ logged_in_as = [b \in Browsers |-> 0]
    /\ regs = [p \in RegProcs |-> IdleReg]
    /\ chats = [p \in ChatProcs |-> IdleChat]
    /\ race = NoRace

\* a request that changes nothing but the response: the gate's redirect, a page
Answer(resp) ==
    /\ response' = resp
    /\ errors_before' = consecutive_errors
    /\ UNCHANGED <<users, sessions, consecutive_errors, run, logged_in_as, conc>>

\* the gate's answer to a request it stops: redirect(url_for('login_page'))
GateRedirect == Redirect("/login", "none")

Home ==
    \E b \in Browsers :
        /\ request' = [browser |-> b, path |-> "/", data |-> NoData]
        /\ IF check_auth("/", sessions[b]) = "redirect"
           THEN Answer(GateRedirect)
           ELSE Answer(home(sessions[b]))

LoginPage ==
    \E b \in Browsers :
        /\ request' = [browser |-> b, path |-> "/login", data |-> NoData]
        /\ IF check_auth("/login", sessions[b]) = "redirect"
           THEN Answer(GateRedirect)
           ELSE Answer(login_page(sessions[b]))

RegisterPage ==
    \E b \in Browsers :
        /\ request' = [browser |-> b, path |-> "/register", data |-> NoData]
        /\ IF check_auth("/register", sessions[b]) = "redirect"
           THEN Answer(GateRedirect)
           ELSE Answer(register_page(sessions[b]))

ProfilePage ==
    \E b \in Browsers :
        /\ request' = [browser |-> b, path |-> "/profile", data |-> NoData]
        /\ IF check_auth("/profile", sessions[b]) = "redirect"
           THEN Answer(GateRedirect)
           ELSE Answer(Page("profile.html", "profile_page"))

ChatAppPage ==
    \E b \in Browsers :
        /\ request' = [browser |-> b, path |-> "/chat_app", data |-> NoData]
        /\ IF check_auth("/chat_app", sessions[b]) = "redirect"
           THEN Answer(GateRedirect)
           ELSE Answer(Page("chat_app.html", "chat_app_page"))

GetUserProfile ==
    \E b \in Browsers :
        /\ request' = [browser |-> b, path |-> "/get_user_profile", data |-> NoData]
        /\ IF check_auth("/get_user_profile", sessions[b]) = "redirect"
           THEN Answer(GateRedirect)
           ELSE Answer(get_user_profile(sessions[b], users))

\* Flask's static view: the file when the static folder holds it, 404 otherwise
StaticFile ==
    \E b \in Browsers, path \in StaticPaths, found \in BOOLEAN :
        /\ request' = [browser |-> b, path |-> path, data |-> NoData]
        /\ IF check_auth(path, sessions[b]) = "redirect"
           THEN Answer(GateRedirect)
           ELSE Answer([status |-> IF found THEN 200 ELSE 404, type |-> "file",
                        text |-> path, handler |-> "static", profile |-> NoProfile])

\* a path no route matches: the gate still runs first, then Flask answers 404
Unrouted ==
    \E b \in Browsers, path \in UnroutedPaths :
        /\ request' = [browser |-> b, path |-> path, data |-> NoData]
        /\ IF check_auth(path, sessions[b]) = "redirect"
           THEN Answer(GateRedirect)
           ELSE Answer([status |-> 404, type |-> "error", text |-> "NotFound",
                        handler |-> "none", profile |-> NoProfile])

RegisterUser ==
    \E b \in Browsers, u \in UsernameInputs, e \in EmailInputs,
       p \in PasswordInputs, now \in Months :
        LET data == [NoData EXCEPT !.username = u, !.email = e, !.password = p]
            out == register_user(data, users, now)
        IN
        /\ request' = [browser |-> b, path |-> "/register_user", data |-> data]
        /\ IF check_auth("/register_user", sessions[b]) = "redirect"
           THEN Answer(GateRedirect)
           ELSE /\ response' = out.resp
                /\ users' = out.tbl
                /\ errors_before' = consecutive_errors
                /\ UNCHANGED <<sessions, consecutive_errors, run, logged_in_as, conc>>

LoginUser ==
    \E b \in Browsers, e \in EmailInputs, p \in PasswordInputs :
        LET data == [NoData EXCEPT !.email = e, !.password = p]
            out == login_user(data, users, sessions[b])
        IN
        /\ request' = [browser |-> b, path |-> "/login_user", data |-> data]
        /\ IF check_auth("/login_user", sessions[b]) = "redirect"
           THEN Answer(GateRedirect)
           ELSE /\ response' = out.resp
                /\ sessions' = [sessions EXCEPT ![b] = out.session]
                /\ logged_in_as' =
                       IF out.resp.status = 200
                       THEN [logged_in_as EXCEPT ![b] = RowsByEmail(users, e.v)[1].id]
                       ELSE logged_in_as
                /\ errors_before' = consecutive_errors
                /\ UNCHANGED <<users, consecutive_errors, run, conc>>

LogoutUser ==
    \E b \in Browsers :
        /\ request' = [browser |-> b, path |-> "/logout_user", data |-> NoData]
        /\ IF check_auth("/logout_user", sessions[b]) = "redirect"
           THEN Answer(GateRedirect)
           ELSE /\ response' = JsonMessage(200, "Logged out successfully.", "logout_user")
                /\ sessions' = [sessions EXCEPT ![b] = logout_user(sessions[b])]
                /\ logged_in_as' = [logged_in_as EXCEPT ![b] = 0]
                /\ errors_before' = consecutive_errors
                /\ UNCHANGED <<users, consecutive_errors, run, conc>>

\* POST /chat.  .lower() of a message that is no string raises AttributeError
\* before the counter is touched.
Chat ==
    \E b \in Browsers, msg \in ChatInputs :
        LET data == [NoData EXCEPT !.message = msg]
            user_message == Get(msg, JStr(""))
        IN
        /\ request' = [browser |-> b, path |-> "/chat", data |-> data]
        /\ IF check_auth("/chat", sessions[b]) = "redirect"
           THEN Answer(GateRedirect)
           ELSE IF user_message.t # "str"
           THEN Answer(ServerError("AttributeError", "chat"))
           ELSE LET out == chat(CascadeOf[user_message.v], consecutive_errors) IN
                /\ out.branch = "unmatched" => run < MaxRun
                /\ response' = JsonReply(out.reply, "chat")
                /\ consecutive_errors' = out.errors
                /\ run' = IF out.branch = "unmatched" THEN run + 1 ELSE 0
                /\ errors_before' = consecutive_errors
                /\ UNCHANGED <<users, sessions, logged_in_as, conc>>

Next ==
    \/ Home
    \/ LoginPage
    \/ RegisterPage
    \/ ProfilePage
    \/ ChatAppPage
    \/ RegisterUser
    \/ LoginUser
    \/ LogoutUser
    \/ GetUserProfile
    \/ StaticFile
    \/ Unrouted
    \/ Chat

Spec == Init /\ [][Next]_vars

-----------------------------------------------------------------------------
(* register_user() step by step: each thread has its own connection; the   *)
(* SELECT reads what is committed, the INSERT and its commit are one       *)
(* write transaction, which SQLite serializes and checks against the       *)
(* UNIQUE constraints of the table.                                        *)

\* lines 87-95: the body is read and validated; nothing shared is touched
RegReceive ==
    \E p \in RegProcs, u \in UsernameInputs, e \in EmailInputs, pw \in PasswordInputs :
        LET data == [NoData EXCEPT !.username = u, !.email = e, !.password = pw]
            email == Get(e, JNull)
            password == Get(pw, JNull)
            username == Get(u, JNull)
        IN
        /\ regs[p].pc = "idle"
        /\ regs' = [regs EXCEPT ![p] =
                      IF Falsy(email) \/ Falsy(password) \/ Falsy(username)
                      THEN [pc |-> "done", data |-> data, status |-> 400]
                      ELSE IF Len(password.v) < MinPasswordLen
                      THEN [pc |-> "done", data |-> data, status |-> 400]
                      ELSE [pc |-> "select", data |-> data, status |-> 0]]
        /\ UNCHANGED <<users, sessions, consecutive_errors, request, response, run,
                       errors_before, logged_in_as, chats, race>>

\* lines 101-104: the existence check, 409 when it finds a row
RegSelect ==
    \E p \in RegProcs :
        /\ regs[p].pc = "select"
        /\ regs' = [regs EXCEPT ![p] =
                      IF ExistsEmailOrUsername(users, regs[p].data.email.v,
                                               regs[p].data.username.v)
                      THEN [@ EXCEPT !.pc = "done", !.status = 409]
                      ELSE [@ EXCEPT !.pc = "insert"]]
        /\ UNCHANGED <<users, sessions, consecutive_errors, request, response, run,
                       errors_before, logged_in_as, chats, race>>

\* lines 110-123: INSERT and commit, 201; an INSERT the UNIQUE constraints refuse
\* raises sqlite3.IntegrityError, which the handler answers with 500
RegInsert ==
    \E p \in RegProcs, now \in Months :
        LET data == regs[p].data IN
        /\ regs[p].pc = "insert"
        /\ IF UniqueOk(users, data.email.v, data.username.v)
           THEN /\ users' = InsertUser(users, data.username.v, data.email.v,
                                       data.password.v, now)
                /\ regs' = [regs EXCEPT ![p] = [@ EXCEPT !.pc = "done", !.status = 201]]
           ELSE /\ users' = users
                /\ regs' = [regs EXCEPT ![p] = [@ EXCEPT !.pc = "done", !.status = 500]]
        /\ UNCHANGED <<sessions, consecutive_errors, request, response, run,
                       errors_before, logged_in_as, chats, race>>

NextReg ==
    \/ RegReceive
    \/ RegSelect
    \/ RegInsert

\* at most one request per thread, from an empty table, in any interleaving
SpecReg == Init /\ [][NextReg]_vars

-----------------------------------------------------------------------------
(* chat() step by step.  consecutive_errors is a module global that the    *)
(* threads read and write with no lock: `+= 1` is a load and a store, the  *)
(* `>= 2` test loads it again, the reset is one more store.                *)

\* the messages the concurrent requests carry
RaceMessages == {"", "Hello there", "backend", "asdf", "yes please"}

\* line 476: the value `consecutive_errors += 1` stores, from the one it loaded
Incremented_two(read) == read + 2

Incremented(read) == read + 1

\* line 477: `if consecutive_errors >= 2`
Escalates_three(errors) == errors >= 3

Escalates(errors) == errors >= 2

NoChatInFlight == \A p \in ChatProcs : chats[p].pc \in {"idle", "done"}

\* the replies of the requests that are answered and not yet returned
Answered == {p \in ChatProcs : chats[p].pc = "done"}
CapabilityCount == Cardinality({p \in Answered : chats[p].reply = CapabilityReply})

\* two unmatched requests, the only ones since the counter was 0 with no request
\* in progress, are both answered
RoundOfTwo ==
    /\ race.base = 0
    /\ race.launched = 2
    /\ Cardinality(Answered) = 2
    /\ \A p \in ChatProcs : chats[p].pc \in {"idle", "done"}
    /\ \A p \in Answered : chats[p].kind = "unmatched"

\* lines 202-474: the message is normalized and run through the cascade; nothing
\* shared is touched yet
ChatReceive ==
    \E p \in ChatProcs, raw \in RaceMessages :
        LET c == CascadeOf[raw] IN
        /\ chats[p].pc = "idle"
        /\ chats' = [chats EXCEPT ![p] =
                       IF Len(c.user_message) = 0
                       THEN [pc |-> "zero", kind |-> "empty", read |-> 0,
                             reply |-> ClarifyReply]
                       ELSE IF c.reply # NoReply
                       THEN [pc |-> "zero", kind |-> "matched", read |-> 0,
                             reply |-> c.reply]
                       ELSE [pc |-> "load", kind |-> "unmatched", read |-> 0,
                             reply |-> NoReply]]
        /\ race' = IF \A q \in ChatProcs : chats[q].pc = "idle"
                   THEN [race EXCEPT !.base = consecutive_errors, !.launched = 1]
                   ELSE [race EXCEPT !.launched = IF @ < 3 THEN @ + 1 ELSE @]
        /\ UNCHANGED <<users, sessions, consecutive_errors, request, response, run,
                       errors_before, logged_in_as, regs>>

\* `consecutive_errors = 0` of the empty branch and of every matched branch
ChatZero ==
    \E p \in ChatProcs :
        /\ chats[p].pc = "zero"
        /\ consecutive_errors' = 0
        /\ chats' = [chats EXCEPT ![p].pc = "done"]
        /\ UNCHANGED <<users, sessions, request, response, run, errors_before,
                       logged_in_as, regs, race>>

\* line 476, first half: the global is loaded
ChatLoad ==
    \E p \in ChatProcs :
        /\ chats[p].pc = "load"
        /\ chats' = [chats EXCEPT ![p].pc = "store", ![p].read = consecutive_errors]
        /\ UNCHANGED <<users, sessions, consecutive_errors, request, response, run,
                       errors_before, logged_in_as, regs, race>>

\* line 476, second half: the incremented value is stored
ChatStore ==
    \E p \in ChatProcs :
        /\ chats[p].pc = "store"
        /\ Incremented(chats[p].read) <= MaxErrors
        /\ consecutive_errors' = Incremented(chats[p].read)
        /\ chats' = [chats EXCEPT ![p].pc = "test"]
        /\ UNCHANGED <<users, sessions, request, response, run, errors_before,
                       logged_in_as, regs, race>>

\* lines 477-481: the global is loaded again and tested; the reply is chosen
ChatTest ==
    \E p \in ChatProcs :
        /\ chats[p].pc = "test"
        /\ chats' = [chats EXCEPT ![p] =
                       IF Escalates(consecutive_errors)
                       THEN [@ EXCEPT !.pc = "reset", !.reply = CapabilityReply]
                       ELSE [@ EXCEPT !.pc = "done", !.reply = GenericReply]]
        /\ UNCHANGED <<users, sessions, consecutive_errors, request, response, run,
                       errors_before, logged_in_as, regs, race>>

\* line 479: the reset after the capability listing was chosen
ChatReset ==
    \E p \in ChatProcs :
        /\ chats[p].pc = "reset"
        /\ consecutive_errors' = 0
        /\ chats' = [chats EXCEPT ![p].pc = "done"]
        /\ UNCHANGED <<users, sessions, request, response, run, errors_before,
                       logged_in_as, regs, race>>

\* line 483 and the returns of the branches: the response leaves, the thread is
\* free again.  The history notes how many of a round of two got the listing.
ChatReturn ==
    \E p \in ChatProcs :
        /\ chats[p].pc = "done"
        /\ chats' = [chats EXCEPT ![p] = IdleChat]
        /\ race' = IF RoundOfTwo
                   THEN [race EXCEPT !.seen = @ \cup {CapabilityCount}]
                   ELSE race
        /\ UNCHANGED <<users, sessions, consecutive_errors, request, response, run,
                       errors_before, logged_in_as, regs>>

NextChat ==
    \/ ChatReceive
    \/ ChatZero
    \/ ChatLoad
    \/ ChatStore
    \/ ChatTest
    \/ ChatReset
    \/ ChatReturn

\* chat requests of logged-in browsers, one per thread at a time, interleaved
SpecChat == Init /\ [][NextChat]_vars

-----------------------------------------------------------------------------
(* What the last request was, read off request and response.               *)

\* the last request ran chat() to one of its returns
LastChat == request.path = "/chat" /\ response.handler = "chat" /\ response.type = "reply"

\* the cascade's view of the last chat message (an absent field reads as "")
LastCascade == CascadeOf[Get(request.data.message, JStr("")).v]

LastEmpty == LastChat /\ Len(LastCascade.user_message) = 0
LastMatched == LastChat /\ Len(LastCascade.user_message) > 0 /\ LastCascade.reply # NoReply
LastUnmatched == LastChat /\ Len(LastCascade.user_message) > 0 /\ LastCascade.reply = NoReply

-----------------------------------------------------------------------------
(* C1: in a run of consecutive unmatched chat calls that starts with the   *)
(* counter at 0 and has no matched or empty call in between, whichever     *)
(* browsers make the calls, the k-th call gets the capability listing      *)
(* exactly when k is even and the generic reply exactly when k is odd.     *)
C1_Alternates ==
    LastUnmatched =>
        /\ (run % 2 = 0) <=> (response.text = CapabilityReply)
        /\ (run % 2 = 1) <=> (response.text = GenericReply)

\* the third unmatched call of a run, answered with the generic reply again
C1_Witness == LastUnmatched /\ run = 3 /\ response.text = GenericReply

(* C2: a chat call that matches a rule of families 2-6 leaves the counter  *)
(* at 0 whatever it was, and an unmatched call right after a matched call  *)
(* gets the generic reply, never the capability listing.                   *)
C2_MatchedResets ==
    /\ [](LastMatched => consecutive_errors = 0)
    /\ [][(LastMatched /\ LastUnmatched') => response'.text = GenericReply]_vars

\* a matched call that found the counter at 1
C2_Witness == LastMatched /\ errors_before = 1 /\ consecutive_errors = 0

(* C3: a chat message that is empty after lower-casing and trimming (also  *)
(* whitespace only, also an absent field) gets the clarification prompt    *)
(* and leaves the counter at 0, whatever it was.                           *)
C3_EmptyClarifies ==
    LastEmpty => response.text = ClarifyReply /\ consecutive_errors = 0

\* a whitespace-only message that found the counter at 1
C3_Witness ==
    /\ LastEmpty
    /\ request.data.message = JStr("   ")
    /\ errors_before = 1
    /\ response.text = ClarifyReply

(* C4: POST /chat is total: whatever the message field holds, a request    *)
(* that reaches chat() is answered 200 with a reply.                       *)
C4_ChatTotal ==
    response.handler = "chat" => response.status = 200 /\ response.type = "reply"

-----------------------------------------------------------------------------
(* Registration and login requests, read off the request.                  *)

\* a field that holds a non-empty string
Given(field) == field.t = "str" /\ Len(field.v) > 0

\* the three fields are given and the password has at least 6 characters
ValidRegistration(data) ==
    /\ Given(data.username) /\ Given(data.email) /\ Given(data.password)
    /\ Len(data.password.v) >= 6

EmailTaken(tbl, data) == \E i \in 1..Len(tbl) : tbl[i].email = data.email.v
UsernameTaken(tbl, data) == \E i \in 1..Len(tbl) : tbl[i].username = data.username.v

(* C5: a valid POST /register_user whose email or username is that of an   *)
(* existing row is answered 409 and leaves the users table as it was; no   *)
(* two rows ever share an email or a username.                             *)
C5_DuplicateRejected ==
    /\ [][(/\ request'.path = "/register_user"
           /\ ValidRegistration(request'.data)
           /\ (EmailTaken(users, request'.data) \/ UsernameTaken(users, request'.data)))
          => (response'.status = 409 /\ users' = users)]_vars
    /\ [](\A i, j \in 1..Len(users) :
            i # j => users[i].email # users[j].email
                     /\ users[i].username # users[j].username)

\* a 409 for a taken username with an email no row has
C5_Witness ==
    /\ request.path = "/register_user"
    /\ ValidRegistration(request.data)
    /\ response.status = 409
    /\ UsernameTaken(users, request.data)
    /\ ~EmailTaken(users, request.data)

(* C6: POST /register_user with username, email or password missing or     *)
(* empty, or with a password shorter than 6 characters, is answered 400    *)
(* and inserts no row, also when its email or username is registered.      *)
C6_InvalidRejected ==
    [][(request'.path = "/register_user" /\ ~ValidRegistration(request'.data))
       => (response'.status = 400 /\ users' = users)]_vars

\* a 5-character password with an email that is registered: 400, not 409
C6_Witness ==
    /\ request.path = "/register_user"
    /\ Given(request.data.username) /\ Given(request.data.email)
    /\ Given(request.data.password) /\ Len(request.data.password.v) = 5
    /\ EmailTaken(users, request.data)
    /\ response.status = 400

\* a login body with both fields given
LoginData(e, p) == [NoData EXCEPT !.email = JStr(e), !.password = JStr(p)]

\* e is the email of a row whose password is not p
WrongPasswordFor(tbl, e, p) ==
    \E i \in 1..Len(tbl) : tbl[i].email = e /\ tbl[i].password # p

UnknownEmailIn(tbl, e) == \A i \in 1..Len(tbl) : tbl[i].email # e

\* the last request was a login with a wrong password or an unknown email
FailedLogin ==
    /\ request.path = "/login_user"
    /\ Given(request.data.email) /\ Given(request.data.password)
    /\ \/ WrongPasswordFor(users, request.data.email.v, request.data.password.v)
       \/ UnknownEmailIn(users, request.data.email.v)

(* C7: a login with a registered email and a wrong password and a login    *)
(* with an unregistered email get the same response, status 401 and the    *)
(* same message, from any session; the caller's session is left as it was. *)
C7_SameRefusal ==
    /\ [](\A e1, e2 \in Emails, p1, p2 \in Passwords, b \in Browsers :
            (WrongPasswordFor(users, e1, p1) /\ UnknownEmailIn(users, e2))
            => /\ login_user(LoginData(e1, p1), users, sessions[b]).resp
                  = login_user(LoginData(e2, p2), users, sessions[b]).resp
               /\ login_user(LoginData(e1, p1), users, sessions[b]).resp.status = 401)
    /\ [](FailedLogin => response.status = 401)
    /\ [][FailedLogin' /\ request'.path = "/login_user" => sessions' = sessions]_vars

\* a wrong password for a registered email while another email is unregistered,
\* sent from a browser that is logged in
C7_Witness ==
    /\ FailedLogin
    /\ WrongPasswordFor(users, request.data.email.v, request.data.password.v)
    /\ \E e \in Emails : UnknownEmailIn(users, e)
    /\ "user_id" \in DOMAIN sessions[request.browser]
    /\ response.status = 401

(* C8: GET /get_user_profile with no active session is answered 401 with   *)
(* the JSON 'Not authenticated.' message, not with a redirect.             *)
C8_Profile401 ==
    (request.path = "/get_user_profile"
     /\ "user_id" \notin DOMAIN sessions[request.browser])
    => (response.status = 401 /\ response.text = "Not authenticated.")

-----------------------------------------------------------------------------
(* The auth gate, seen from outside.                                       *)

\* the login page, the registration page and the two POST endpoints behind them
OpenRoutes == {"/login", "/register", "/login_user", "/register_user"}

\* the two static assets the pages load
OpenAssets == {"/static/style.css", "/static/script.js"}

\* the step is a request for `path` from a browser whose session has no user_id
\* when the request arrives
ArrivesLoggedOut == "user_id" \notin DOMAIN sessions[request'.browser]

\* the step's request was stopped by the gate: redirected to the login page,
\* no view function run, no state touched
StoppedAtGate ==
    /\ response' = Redirect("/login", "none")
    /\ UNCHANGED <<users, sessions, consecutive_errors>>

\* the step's request reached the view function of its route
ReachedHandler ==
    response'.handler =
        CASE request'.path = "/login" -> "login_page"
          [] request'.path = "/register" -> "register_page"
          [] request'.path = "/login_user" -> "login_user"
          [] request'.path = "/register_user" -> "register_user"

\* C9 as stated: every route but the four open ones is stopped at the gate when
\* the session has no user_id.
C9_Original ==
    [][/\ request'.path \in OpenRoutes => ReachedHandler
       /\ (request'.path \notin OpenRoutes /\ ArrivesLoggedOut) => StoppedAtGate]_vars

(* C9: a request to /login, /register, /login_user or /register_user       *)
(* reaches its handler with or without a session; a request to any other   *)
(* route except the static assets /static/style.css and /static/script.js  *)
(* made without user_id in the session is answered with a redirect to the  *)
(* login page and its handler is not executed.                             *)
C9_Gate ==
    [][/\ request'.path \in OpenRoutes => ReachedHandler
       /\ (request'.path \notin OpenRoutes \cup OpenAssets /\ ArrivesLoggedOut)
          => StoppedAtGate]_vars

\* a logged-out request for the chat endpoint, stopped at the gate
C9_Witness ==
    /\ request.path = "/chat"
    /\ "user_id" \notin DOMAIN sessions[request.browser]
    /\ response = Redirect("/login", "none")
    /\ Len(users) > 0

-----------------------------------------------------------------------------
(* The rule order of chat(), as a table: a rule is satisfied by a message  *)
(* that contains one of its keywords ("sub"), equals one of them ("eq"),   *)
(* or is empty ("empty").                                                  *)

Rules ==
    << [how |-> "empty", words |-> << >>, reply |-> ClarifyReply],
       [how |-> "sub", reply |-> GreetingReply,
        words |-> <<"hello", "hi", "hey", "good morning", "good afternoon",
                    "good evening", "good night", "how are you", "what's up",
                    "greetings">>],
       [how |-> "eq", reply |-> AffirmReply,
        words |-> <<"yes", "yeah", "yep", "yup", "sure", "definitely">>],
       [how |-> "eq", reply |-> NegateReply,
        words |-> <<"no", "nope", "not really", "nah">>],
       [how |-> "sub", reply |-> GratitudeReply,
        words |-> <<"thanks", "thank you", "ty">>],
       [how |-> "sub", reply |-> BcaReply,
        words |-> <<"job opportunities after bca", "jobs after bca",
                    "career after bca">>],
       [how |-> "sub", reply |-> WebReply,
        words |-> <<"web developer", "web dev", "frontend", "backend">>],
       [how |-> "sub", reply |-> DataReply,
        words |-> <<"data scientist", "data analyst", "data science">>],
       [how |-> "sub", reply |-> CyberReply,
        words |-> <<"cybersecurity", "cyber security", "security analyst">>],
       [how |-> "sub", reply |-> CloudReply,
        words |-> <<"cloud engineer", "devops", "devops engineer",
                    "cloud computing">>],
       [how |-> "sub", reply |-> SoftwareReply,
        words |-> <<"software developer", "software engineer", "programmer">>],
       [how |-> "sub", reply |-> PythonReply,
        words |-> <<"python developer", "python programming">>],
       [how |-> "sub", reply |-> LanguageReply,
        words |-> <<"java developer", "java programming", "c++ developer",
                    "c++ programming", "javascript developer",
                    "javascript programming", "language based developer">>],
       [how |-> "sub", reply |-> TesterReply,
        words |-> <<"software tester", "qa engineer", "quality assurance",
                    "software testing">>],
       [how |-> "sub", reply |-> MlReply,
        words |-> <<"machine learning engineer", "ml engineer", "ai engineer",
                    "artificial intelligence engineer">>],
       [how |-> "sub", reply |-> DbmsReply,
        words |-> <<"dbms", "database architect", "database engineer",
                    "database administrator">>],
       [how |-> "sub", reply |-> IotReply,
        words |-> <<"iot developer", "internet of things developer">>],
       [how |-> "sub", reply |-> AndroidReply,
        words |-> <<"android developer", "android app",
                    "mobile developer android">>],
       [how |-> "sub", reply |-> IosReply,
        words |-> <<"ios developer", "ios app", "mobile developer ios">>],
       [how |-> "sub", reply |-> FlutterReply,
        words |-> <<"flutter developer", "flutter programming", "flutter app",
                    "cross-platform mobile developer">>],
       [how |-> "sub", reply |-> BlockchainReply,
        words |-> <<"blockchain developer", "blockchain programming",
                    "crypto developer">>],
       [how |-> "sub", reply |-> EducatorReply,
        words |-> <<"educator", "teacher", "professor", "lecturer",
                    "computer instructor">>] >>

Satisfies(m, rule) ==
    CASE rule.how = "empty" -> Len(m) = 0
      [] rule.how = "eq" -> \E j \in 1..Len(rule.words) : rule.words[j] = m
      [] rule.how = "sub" -> \E j \in 1..Len(rule.words) : In(rule.words[j], m)

\* the rules a message satisfies, by their place in the order
Satisfied(m) == {i \in 1..Len(Rules) : Satisfies(m, Rules[i])}

\* the first of them; one past the table when none is: the fallback
FirstRule(m) ==
    IF Satisfied(m) = {} THEN Len(Rules) + 1
    ELSE CHOOSE i \in Satisfied(m) : \A j \in Satisfied(m) : i <= j

\* first rule and satisfied rules of the messages explored, evaluated once
RulesOf ==
    [raw \in ChatMessages |->
        [first |-> FirstRule(strip(lower(raw))), all |-> Satisfied(strip(lower(raw)))]]

LastRules == RulesOf[Get(request.data.message, JStr("")).v]

(* C10: the chat reply is that of the first rule, in the order empty,      *)
(* greeting, affirmation, negation, gratitude, topic rules in source       *)
(* order, that the normalized message satisfies, whatever later rules it   *)
(* satisfies too; a message that satisfies none gets one of the two        *)
(* fallback replies.  Two messages with the same first rule so get the     *)
(* same reply text.                                                        *)
C10_FirstMatchWins ==
    LastChat =>
        IF LastRules.first <= Len(Rules)
        THEN response.text = Rules[LastRules.first].reply
        ELSE response.text \in {GenericReply, CapabilityReply}

\* a message that satisfies the gratitude rule and, later in the order, the web
\* developer rule, answered with the gratitude reply
C10_Witness ==
    /\ LastChat
    /\ request.data.message = JStr("thanks for the backend")
    /\ LastRules.all = {5, 7}
    /\ response.text = GratitudeReply

-----------------------------------------------------------------------------
(* Sessions over logins and logouts.                                       *)

\* the session that holds the three fields of a row and nothing else
SessionOf(row) ==
    [k \in {"user_id", "user_email", "username"} |->
        CASE k = "user_id" -> row.id
          [] k = "user_email" -> row.email
          [] k = "username" -> row.username]

\* every session is empty when no login is in force, and holds the three fields
\* of the row of the latest successful login when one is
SessionsFollowLogins ==
    \A b \in Browsers :
        IF logged_in_as[b] = 0
        THEN "user_id" \notin DOMAIN sessions[b] /\ sessions[b] = EmptySession
        ELSE \E i \in 1..Len(users) :
                users[i].id = logged_in_as[b] /\ sessions[b] = SessionOf(users[i])

\* the step is a login that is answered 200
LoginSucceeds == request'.path = "/login_user" /\ response'.status = 200

\* a successful login leaves the three fields of the row with the request's email
\* in the caller's session, whatever the session held
LoginBinds ==
    LoginSucceeds =>
        \E i \in 1..Len(users) :
            /\ users[i].email = request'.data.email.v
            /\ sessions'[request'.browser] = SessionOf(users[i])

\* C11 as stated: every logout is answered 200.
C11_Original ==
    /\ [](SessionsFollowLogins)
    /\ [][LoginBinds]_vars
    /\ [][request'.path = "/logout_user"
          => (response'.status = 200
              /\ sessions'[request'.browser] = EmptySession)]_vars

(* C11: a successful login binds user_id, user_email and username of the   *)
(* matched row, replacing what the session held; a logout made with a      *)
(* user_id in the session removes the three fields and is answered 200,    *)
(* and one made without is redirected to the login page by the gate and    *)
(* leaves the session empty; so a session holds a user_id exactly when the *)
(* latest session-changing request was a successful login, and then its    *)
(* three fields are those of that login's row.                             *)
C11_Sessions ==
    /\ [](SessionsFollowLogins)
    /\ [][LoginBinds]_vars
    /\ [][request'.path = "/logout_user"
          => IF "user_id" \in DOMAIN sessions[request'.browser]
             THEN response'.status = 200
                  /\ sessions'[request'.browser] = EmptySession
             ELSE response' = Redirect("/login", "none")
                  /\ sessions' = sessions
                  /\ sessions[request'.browser] = EmptySession]_vars

\* a login as the second row, from one browser, while the other browser stays
\* logged in as the first
C11_Witness ==
    /\ request.path = "/login_user"
    /\ response.status = 200
    /\ Len(users) = 2
    /\ \E b \in Browsers :
          /\ b # request.browser
          /\ sessions[b] = SessionOf(users[1])
          /\ sessions[request.browser] = SessionOf(users[2])

-----------------------------------------------------------------------------
(* Concurrent registrations.                                               *)

\* the requests that passed validation
ValidRegs == {p \in RegProcs : regs[p].pc # "idle" /\ ValidRegistration(regs[p].data)}

\* two requests with the same email or the same username
Share(p, q) ==
    \/ regs[p].data.email = regs[q].data.email
    \/ regs[p].data.username = regs[q].data.username

\* no request is between its first and its last step
NoRegInFlight == \A p \in RegProcs : regs[p].pc \in {"idle", "done"}

NoDuplicateRows ==
    \A i, j \in 1..Len(users) :
        i # j => users[i].email # users[j].email /\ users[i].username # users[j].username

(* C12: however the existence checks and inserts of concurrent             *)
(* registration requests interleave, no two rows share an email or a       *)
(* username, and of two or more requests that all share an email or a      *)
(* username with each other exactly one inserts its row and gets 201.      *)
C12_OneWinner ==
    /\ NoDuplicateRows
    /\ (/\ NoRegInFlight
        /\ Cardinality(ValidRegs) >= 2
        /\ \A p, q \in ValidRegs : Share(p, q))
       => /\ Cardinality({p \in ValidRegs : regs[p].status = 201}) = 1
          /\ Len(users) = 1

\* two requests with one email both passed the existence check; one inserted,
\* the other was refused by the UNIQUE constraint
C12_Witness ==
    /\ NoRegInFlight
    /\ \A p, q \in ValidRegs : Share(p, q)
    /\ \E p, q \in ValidRegs :
          /\ regs[p].data.email = regs[q].data.email
          /\ regs[p].status = 201
          /\ regs[q].status = 500

(* C13: a valid registration request that is rejected because its email or *)
(* username is that of a row in the table gets 409, in every interleaving. *)
C13_Duplicate409 ==
    \A p \in ValidRegs :
        (regs[p].pc = "done" /\ regs[p].status # 201) => regs[p].status = 409

-----------------------------------------------------------------------------
(* Concurrent chat requests.                                               *)

\* what the answered requests loaded at line 476
ReadsOfAnswered == {chats[p].read : p \in Answered}

(* C14: of two concurrent unmatched chat requests started with the counter *)
(* at 0, neither gets the capability listing when an update is lost (both  *)
(* loaded 0, the counter ends at 1), and otherwise one or both get it      *)
(* (one loaded 0, the other 1, the counter ends at 0): which of the three  *)
(* happens depends on the interleaving alone.                              *)
C14_RaceOutcomes ==
    RoundOfTwo =>
        IF CapabilityCount = 0
        THEN ReadsOfAnswered = {0} /\ consecutive_errors = 1
        ELSE ReadsOfAnswered = {0, 1} /\ consecutive_errors = 0

\* rounds of two were seen to end with no capability listing and with two
C14_Witness == {0, 2} \subseteq race.seen

(* C15: whenever no chat request is in progress the counter is 0 or 1,     *)
(* after requests handled one at a time and after any interleaving of      *)
(* concurrent ones.                                                        *)
C15_CounterSettles ==
    NoChatInFlight => consecutive_errors \in {0, 1}

\* three requests interleaved so that the counter went up to 3 (one of them
\* loaded 2), all answered, the counter back at 0
C15_Witness ==
    /\ NoChatInFlight
    /\ Cardinality(Answered) = 3
    /\ \E p \in Answered : chats[p].read = 2 /\ chats[p].reply = CapabilityReply
    /\ consecutive_errors = 0

-----------------------------------------------------------------------------
(* Topic keywords as whole messages.                                       *)

\* the places of the topic rules in Rules: those after the gratitude rule
TopicRules == {i \in 1..Len(Rules) : i > 5}

\* the topic rules that list the message, as it is, among their keywords
TopicsNaming(m) ==
    {i \in TopicRules : \E j \in 1..Len(Rules[i].words) : Rules[i].words[j] = m}

(* C16: a message that is exactly a keyword of a topic rule is not caught  *)
(* by the greeting or the gratitude check and gets that topic's reply.     *)
C16_KeywordsReach ==
    LastChat =>
        \A i \in TopicsNaming(LastCascade.user_message) :
            response.text = Rules[i].reply

====
